---------------------------- MODULE Spec2Model ----------------------------
(***************************************************************************)
(* Model of libraries/ESP8266WiFiMesh/src/JsonTranslator.cpp: the codec    *)
(* for the handshake messages of the ESP-NOW mesh backend.                 *)
(*                                                                         *)
(* A String is a sequence of one-character strings.  Offsets are 0-based   *)
(* as in the code (character i of s is s[i + 1]).  A uint32_t is a pair    *)
(* <<hi, lo>> of 16-bit limbs, a uint64_t is its canonical sequence of     *)
(* decimal digits, a hardware address is a sequence of 6 bytes.  A         *)
(* function that yields several values yields them as a tuple.             *)
(***************************************************************************)
EXTENDS Integers, Sequences, FiniteSets, TLC

VARIABLES
    jsonString,     \* the message at hand
    origin,         \* how the message was made: <<kind, inputs...>>
    call,           \* the function last called on it: <<name, arguments...>>
    ret,            \* the value that call returned
    fatal,          \* the call ended in the failed assertion and never returned
    resultString,   \* the caller's result variables, one for each result type:
    resultKey,      \*   String, uint64_t, uint8_t[6], uint32_t, bool, uint16_t
    resultMac,
    resultNumber,
    resultFlag,
    resultCount

results == <<resultString, resultKey, resultMac, resultNumber, resultFlag, resultCount>>

vars == <<jsonString, origin, call, ret, fatal, results>>

(***************************************************************************)
(* Field identifiers (JsonTranslator.h) and request headers                *)
(* (EspnowProtocolInterpreter.h).  An identifier includes its opening      *)
(* quotation mark and the colon, see the example at line 46.               *)
(***************************************************************************)
jsonPassword == <<"\"", "p", "a", "s", "s", "w", "o", "r", "d", "\"", ":">>

jsonOwnSessionKey == <<"\"", "o", "w", "n", "S", "K", "\"", ":">>

jsonPeerSessionKey == <<"\"", "p", "e", "e", "r", "S", "K", "\"", ":">>

jsonPeerStaMac == <<"\"", "p", "e", "e", "r", "S", "t", "a", "M", "a", "c", "\"", ":">>

jsonPeerApMac == <<"\"", "p", "e", "e", "r", "A", "p", "M", "a", "c", "\"", ":">>

jsonDuration == <<"\"", "d", "u", "r", "a", "t", "i", "o", "n", "\"", ":">>

jsonNonce == <<"\"", "n", "o", "n", "c", "e", "\"", ":">>

jsonHmac == <<"\"", "h", "m", "a", "c", "\"", ":">>

jsonDesync == <<"\"", "d", "e", "s", "y", "n", "c", "\"", ":">>

jsonUnsynchronizedMessageID == <<"\"", "u", "n", "s", "y", "n", "c", "h", "r", "o", "n", "i", "z", "e", "d", "M", "e", "s", "s", "a", "g", "e", "I", "D", "\"", ":">>

jsonMeshMessageCount == <<"\"", "m", "e", "s", "h", "M", "e", "s", "s", "a", "g", "e", "C", "o", "u", "n", "t", "\"", ":">>

jsonConnectionState == <<"\"", "c", "o", "n", "n", "e", "c", "t", "i", "o", "n", "S", "t", "a", "t", "e", "\"", ":">>

temporaryEncryptionRequestHeader == <<"A", "d", "d", "T", "E", "C", ":">>

encryptionRequestHeader == <<"A", "d", "d", "E", "C", ":">>

encryptedConnectionInfoHeader == <<"E", "n", "c", "r", "y", "p", "t", "e", "d", "C", "I", ":">>

emptyString == <<>>

(***************************************************************************)
(* Characters                                                              *)
(***************************************************************************)
AsciiTable == <<" ", "!", "\"", "#", "$", "%", "&", "'", "(", ")", "*", "+", ",", "-", ".", "/", "0", "1", "2", "3", "4", "5", "6", "7", "8", "9", ":", ";", "<", "=", ">", "?", "@", "A", "B", "C", "D", "E", "F", "G", "H", "I", "J", "K", "L", "M", "N", "O", "P", "Q", "R", "S", "T", "U", "V", "W", "X", "Y", "Z", "[", "BACKSLASH", "]", "^", "_", "BACKTICK", "a", "b", "c", "d", "e", "f", "g", "h", "i", "j", "k", "l", "m", "n", "o", "p", "q", "r", "s", "t", "u", "v", "w", "x", "y", "z", "{", "|", "}", "~">>

Ascii(c) == 31 + (CHOOSE i \in 1..Len(AsciiTable) : AsciiTable[i] = c)

HexChars == <<"0", "1", "2", "3", "4", "5", "6", "7", "8", "9", "A", "B", "C", "D", "E", "F">>

IsDigit(c) == Ascii(c) >= 48 /\ Ascii(c) <= 57

\* Value of c as a digit of any base up to 36, or 99 when c is no digit.
DigitValue(c) ==
    LET a == Ascii(c)
    IN  IF a >= 48 /\ a <= 57 THEN a - 48
        ELSE IF a >= 65 /\ a <= 90 THEN a - 55
        ELSE IF a >= 97 /\ a <= 122 THEN a - 87
        ELSE 99

SetMin(S) == CHOOSE x \in S : \A y \in S : x <= y

(***************************************************************************)
(* Arduino String (WString): indexOf and substring                         *)
(***************************************************************************)
MatchesAt(s, pattern, i) ==
    /\ i + Len(pattern) <= Len(s)
    /\ \A k \in 1..Len(pattern) : s[i + k] = pattern[k]

\* String::indexOf(const String &, unsigned int fromIndex)
indexOfString(s, pattern, fromIndex) ==
    IF fromIndex >= Len(s) THEN -1
    ELSE LET found == {i \in fromIndex..(Len(s) - Len(pattern)) : MatchesAt(s, pattern, i)}
         IN  IF found = {} THEN -1 ELSE SetMin(found)

\* String::indexOf(char, unsigned int fromIndex)
indexOfChar(s, ch, fromIndex) ==
    IF fromIndex >= Len(s) THEN -1
    ELSE LET found == {i \in fromIndex..(Len(s) - 1) : s[i + 1] = ch}
         IN  IF found = {} THEN -1 ELSE SetMin(found)

\* String::substring(left, right): the bounds are swapped when left > right
\* and right is clamped to the length.
substring(s, left, right) ==
    LET l == IF left > right THEN right ELSE left
        r == IF left > right THEN left ELSE right
        rr == IF r > Len(s) THEN Len(s) ELSE r
    IN  IF l >= Len(s) THEN <<>> ELSE SubSeq(s, l + 1, rr)

\* String::substring(left) is substring(left, length)
substringFrom(s, left) == substring(s, left, Len(s))

(***************************************************************************)
(* Numbers.  strtoul is the C library's, for the 32-bit unsigned long of   *)
(* the target: it skips white space, takes a sign, detects the base when   *)
(* base is 0 (0x: 16, leading 0: 8, else 10), reads digits up to the first *)
(* character that is no digit of the base and yields ULONG_MAX when the    *)
(* number does not fit.                                                    *)
(***************************************************************************)
LimbBase == 65536

ULONG_MAX == <<LimbBase - 1, LimbBase - 1>>

Zero32 == <<0, 0>>

\* <<acc * base + d on 32 bits, whether it overflowed>>
MulAdd(acc, base, d) ==
    LET lo == acc[2] * base + d
        hi == acc[1] * base + (lo \div LimbBase)
    IN  <<(<<hi % LimbBase, lo % LimbBase>>), hi >= LimbBase>>

Negate32(v) ==
    IF v = Zero32 THEN v
    ELSE IF v[2] = 0 THEN <<LimbBase - v[1], 0>>
    ELSE <<LimbBase - 1 - v[1], LimbBase - v[2]>>

RECURSIVE ReadDigits(_, _, _, _, _)
\* reads text from offset i and yields <<acc, any>>; any is 0 (no digit yet),
\* 1 (digits) or -1 (overflow)
ReadDigits(text, i, base, acc, any) ==
    IF i >= Len(text) \/ DigitValue(text[i + 1]) >= base
    THEN <<acc, any>>
    ELSE LET step == MulAdd(acc, base, DigitValue(text[i + 1]))
         IN  IF any < 0 \/ step[2]
             THEN ReadDigits(text, i + 1, base, acc, -1)
             ELSE ReadDigits(text, i + 1, base, step[1], 1)

RECURSIVE SkipSpace(_, _)
SkipSpace(text, i) ==
    IF i < Len(text) /\ text[i + 1] = " " THEN SkipSpace(text, i + 1) ELSE i

CharAt(text, i) == IF i < Len(text) THEN text[i + 1] ELSE "~"

strtoul(text, base) ==
    LET s0 == SkipSpace(text, 0)
        neg == CharAt(text, s0) = "-"
        s1 == IF CharAt(text, s0) \in {"-", "+"} THEN s0 + 1 ELSE s0
        hexPrefix == /\ base \in {0, 16}
                     /\ CharAt(text, s1) = "0"
                     /\ CharAt(text, s1 + 1) \in {"x", "X"}
        s2 == IF hexPrefix THEN s1 + 2 ELSE s1
        b == IF hexPrefix THEN 16
             ELSE IF base = 0 THEN (IF CharAt(text, s1) = "0" THEN 8 ELSE 10)
             ELSE base
        r == ReadDigits(text, s2, b, Zero32, 0)
    IN  IF r[2] < 0 THEN ULONG_MAX
        ELSE IF neg THEN Negate32(r[1])
        ELSE r[1]


\* String(uint32_t): the decimal text of a 32-bit number
RECURSIVE DecimalDigits(_)
DecimalDigits(v) ==
    IF v = Zero32 THEN <<>>
    ELSE LET t == (v[1] % 10) * LimbBase + v[2]
         IN  DecimalDigits(<<v[1] \div 10, t \div 10>>) \o <<HexChars[(t % 10) + 1]>>

StringOfUint32(v) == IF v = Zero32 THEN <<"0">> ELSE DecimalDigits(v)

\* TypeCast::uint64ToString on a number given by its decimal digits
uint64ToString(number) == [i \in 1..Len(number) |-> HexChars[number[i] + 1]]

RECURSIVE StripZeros(_)
StripZeros(digits) ==
    IF Len(digits) > 1 /\ digits[1] = 0 THEN StripZeros(Tail(digits)) ELSE digits

RECURSIVE LeadingDigits(_)
LeadingDigits(s) ==
    IF s = <<>> \/ ~IsDigit(s[1]) THEN <<>>
    ELSE <<DigitValue(s[1])>> \o LeadingDigits(Tail(s))

\* TypeCast::stringToUint64: the number denoted by the leading decimal digits
stringToUint64(s) ==
    IF LeadingDigits(s) = <<>> THEN <<0>> ELSE StripZeros(LeadingDigits(s))

\* TypeCast::macToString: two upper-case hexadecimal characters per byte
macToString(mac) ==
    [i \in 1..(2 * Len(mac)) |->
        IF i % 2 = 1 THEN HexChars[(mac[(i + 1) \div 2] \div 16) + 1]
        ELSE HexChars[(mac[i \div 2] % 16) + 1]]

\* TypeCast::stringToMac: six bytes, each read from two characters in base 16
HexByte(macString, i) == strtoul(substring(macString, 2 * i, 2 * (i + 1)), 16)[2]

stringToMac(macString) ==
    <<HexByte(macString, 0), HexByte(macString, 1), HexByte(macString, 2),
      HexByte(macString, 3), HexByte(macString, 4), HexByte(macString, 5)>>

(***************************************************************************)
(* MeshCryptoInterface: the HMAC of a message is a tag of                  *)
(* 2 * SHA256_NATURAL_LENGTH hexadecimal characters; a tag verifies when   *)
(* it is the tag of the message under the key.  The digest is a keyed      *)
(* positional checksum with one byte per lane, which tells apart any two   *)
(* messages that differ in a single character.                             *)
(***************************************************************************)
SHA256_NATURAL_LENGTH == 32

RECURSIVE SumSeq(_)
SumSeq(s) == IF s = <<>> THEN 0 ELSE s[1] + SumSeq(Tail(s))

RECURSIVE LaneSum(_, _, _)
LaneSum(message, j, round) ==
    IF j > Len(message) THEN 0
    ELSE ((2 * round + 1) * Ascii(message[j])
          + LaneSum(message, j + SHA256_NATURAL_LENGTH, round + 1)) % 256

Digest(message, hashKey) ==
    [lane \in 1..SHA256_NATURAL_LENGTH |->
        (LaneSum(message, lane, 0) + SumSeq(hashKey) + Len(message) + Len(hashKey)) % 256]

createMeshHmac(message, hashKey) == macToString(Digest(message, hashKey))

verifyMeshHmac(message, messageHmac, hashKey) ==
    createMeshHmac(message, hashKey) = messageHmac

(***************************************************************************)
(* JsonTranslator: composers                                               *)
(***************************************************************************)
createJsonPair(valueIdentifier, value) ==
    valueIdentifier \o <<"\"">> \o value \o <<"\"", ",">>

createJsonEndPair(valueIdentifier, value) ==
    valueIdentifier \o <<"\"">> \o value \o <<"\"", "}", "}">>

ArgumentsOpen == <<"{", "\"", "a", "r", "g", "u", "m", "e", "n", "t", "s", "\"", ":", "{">>

\* the session keys under their own labels, not exchanged
createEncryptedConnectionInfoUnswapped(infoHeader, requestNonce, authenticationPassword, ownSessionKey, peerSessionKey) ==
    infoHeader \o ArgumentsOpen
    \o createJsonPair(jsonNonce, requestNonce)
    \o createJsonPair(jsonPassword, authenticationPassword)
    \o createJsonPair(jsonOwnSessionKey, uint64ToString(ownSessionKey))
    \o createJsonEndPair(jsonPeerSessionKey, uint64ToString(peerSessionKey))

createEncryptedConnectionInfo(infoHeader, requestNonce, authenticationPassword, ownSessionKey, peerSessionKey) ==
    infoHeader \o ArgumentsOpen
    \o createJsonPair(jsonNonce, requestNonce)
    \o createJsonPair(jsonPassword, authenticationPassword)
    \o createJsonPair(jsonOwnSessionKey, uint64ToString(peerSessionKey))
    \o createJsonEndPair(jsonPeerSessionKey, uint64ToString(ownSessionKey))

\* the duration pair whatever the header
createEncryptionRequestIntroAlways(requestHeader, duration) ==
    requestHeader \o ArgumentsOpen
    \o createJsonPair(jsonDuration, StringOfUint32(duration))

createEncryptionRequestIntro(requestHeader, duration) ==
    requestHeader \o ArgumentsOpen
    \o (IF requestHeader = temporaryEncryptionRequestHeader
        THEN createJsonPair(jsonDuration, StringOfUint32(duration))
        ELSE emptyString)

createEncryptionRequestEnding(requestNonce) ==
    createJsonEndPair(jsonNonce, requestNonce)

\* the tag made over the message alone, without the addresses
createEncryptionRequestHmacMessageNoMac(requestHeader, requestNonce, hashKey, duration, staMac, apMac) ==
    LET mainMessage == createEncryptionRequestIntro(requestHeader, duration)
                       \o createJsonPair(jsonNonce, requestNonce)
        hmac == createMeshHmac(mainMessage, hashKey)
    IN  mainMessage \o createJsonEndPair(jsonHmac, hmac)

\* staMac and apMac are the addresses WiFi.macAddress and
\* WiFi.softAPmacAddress report for the composing node.
createEncryptionRequestHmacMessage(requestHeader, requestNonce, hashKey, duration, staMac, apMac) ==
    LET mainMessage == createEncryptionRequestIntro(requestHeader, duration)
                       \o createJsonPair(jsonNonce, requestNonce)
        requesterStaApMac == macToString(staMac) \o macToString(apMac)
        hmac == createMeshHmac(requesterStaApMac \o mainMessage, hashKey)
    IN  mainMessage \o createJsonEndPair(jsonHmac, hmac)

(***************************************************************************)
(* JsonTranslator: field locator                                           *)
(***************************************************************************)
getStartIndex(json, valueIdentifier, searchStartIndex) ==
    LET startIndex == indexOfString(json, valueIdentifier, searchStartIndex)
    IN  IF startIndex < 0 THEN startIndex
        ELSE startIndex + Len(valueIdentifier) + 1

\* the offset of the delimiter itself, the closing quotation mark included
getEndIndexAtDelimiter(json, searchStartIndex) ==
    LET comma == indexOfChar(json, ",", searchStartIndex)
    IN  IF comma < 0 THEN indexOfChar(json, "}", searchStartIndex) ELSE comma

\* only the closing brace ends a value
getEndIndexBraceOnly(json, searchStartIndex) ==
    indexOfChar(json, "}", searchStartIndex) - 1

getEndIndex(json, searchStartIndex) ==
    LET comma == indexOfChar(json, ",", searchStartIndex)
        endIndex == IF comma < 0 THEN indexOfChar(json, "}", searchStartIndex) ELSE comma
    IN  endIndex - 1

(***************************************************************************)
(* JsonTranslator: getters.  Each takes the message and the current value  *)
(* of the caller's result variable and yields <<the value returned, the    *)
(* value of the result variable after the call>>.                          *)
(***************************************************************************)
\* getPassword, getNonce and getHmac have the same body up to the identifier
getText(json, valueIdentifier, result) ==
    LET startIndex == getStartIndex(json, valueIdentifier, 0)
        endIndex == getEndIndex(json, startIndex)
    IN  IF startIndex < 0 THEN <<FALSE, result>>
        ELSE IF endIndex < 0 THEN <<FALSE, result>>
        ELSE <<TRUE, substring(json, startIndex, endIndex)>>

\* the result stops before the closing brace
getConnectionStateWithoutBrace(json, result) ==
    LET startIndex == indexOfString(json, jsonConnectionState, 0)
        endIndex == indexOfChar(json, "}", 0)
    IN  IF startIndex < 0 THEN <<FALSE, result>>
        ELSE IF endIndex < 0 THEN <<FALSE, result>>
        ELSE <<TRUE, substring(json, startIndex, endIndex)>>

getConnectionState(json, result) ==
    LET startIndex == indexOfString(json, jsonConnectionState, 0)
        endIndex == indexOfChar(json, "}", 0)
    IN  IF startIndex < 0 THEN <<FALSE, result>>
        ELSE IF endIndex < 0 THEN <<FALSE, result>>
        ELSE <<TRUE, substring(json, startIndex, endIndex + 1)>>

getPassword(json, result) == getText(json, jsonPassword, result)

getNonce(json, result) == getText(json, jsonNonce, result)

getHmac(json, result) == getText(json, jsonHmac, result)

\* getOwnSessionKey and getPeerSessionKey have the same body up to the identifier
getSessionKey(json, valueIdentifier, result) ==
    LET startIndex == getStartIndex(json, valueIdentifier, 0)
        endIndex == getEndIndex(json, startIndex)
    IN  IF startIndex < 0 THEN <<FALSE, result>>
        ELSE IF endIndex < 0 THEN <<FALSE, result>>
        ELSE <<TRUE, stringToUint64(substring(json, startIndex, endIndex))>>

getOwnSessionKey(json, result) == getSessionKey(json, jsonOwnSessionKey, result)

getPeerSessionKey(json, result) == getSessionKey(json, jsonPeerSessionKey, result)

\* an address of any length is taken
getMacAnyLength(json, valueIdentifier, resultArray) ==
    LET startIndex == getStartIndex(json, valueIdentifier, 0)
        endIndex == getEndIndex(json, startIndex)
    IN  IF startIndex < 0 THEN <<FALSE, resultArray>>
        ELSE IF endIndex < 0 THEN <<FALSE, resultArray>>
        ELSE <<TRUE, stringToMac(substring(json, startIndex, endIndex))>>

\* getPeerStaMac and getPeerApMac have the same body up to the identifier
getMac(json, valueIdentifier, resultArray) ==
    LET startIndex == getStartIndex(json, valueIdentifier, 0)
        endIndex == getEndIndex(json, startIndex)
    IN  IF startIndex < 0 THEN <<FALSE, resultArray>>
        ELSE IF endIndex < 0 \/ endIndex - startIndex # 12
             THEN <<FALSE, resultArray>>
        ELSE <<TRUE, stringToMac(substring(json, startIndex, endIndex))>>

getPeerStaMac(json, resultArray) == getMac(json, jsonPeerStaMac, resultArray)

getPeerApMac(json, resultArray) == getMac(json, jsonPeerApMac, resultArray)

getDuration(json, result) ==
    LET startIndex == getStartIndex(json, jsonDuration, 0)
    IN  IF startIndex < 0 THEN <<FALSE, result>>
        ELSE <<TRUE, strtoul(substringFrom(json, startIndex), 0)>>

getDesync(json, result) ==
    LET startIndex == getStartIndex(json, jsonDesync, 0)
    IN  IF startIndex < 0 THEN <<FALSE, result>>
        ELSE <<TRUE, strtoul(substringFrom(json, startIndex), 0) # Zero32>>

getUnsynchronizedMessageID(json, result) ==
    LET startIndex == getStartIndex(json, jsonUnsynchronizedMessageID, 0)
    IN  IF startIndex < 0 THEN <<FALSE, result>>
        ELSE <<TRUE, strtoul(substringFrom(json, startIndex), 0)>>

\* without the assertion the number is cut to 16 bits
getMeshMessageCountUnchecked(json, result) ==
    LET startIndex == getStartIndex(json, jsonMeshMessageCount, 0)
        longResult == strtoul(substringFrom(json, startIndex), 0)
    IN  IF startIndex < 0 THEN <<FALSE, result, FALSE>>
        ELSE <<TRUE, longResult[2], FALSE>>

\* yields a third component: the assertion failed and the call never returns
getMeshMessageCount(json, result) ==
    LET startIndex == getStartIndex(json, jsonMeshMessageCount, 0)
        longResult == strtoul(substringFrom(json, startIndex), 0)
    IN  IF startIndex < 0 THEN <<FALSE, result, FALSE>>
        ELSE IF longResult[1] # 0 THEN <<FALSE, result, TRUE>>
        ELSE <<TRUE, longResult[2], FALSE>>

\* the tag taken as good whenever it has the right length
verifyEncryptionRequestHmacLengthOnly(encryptionRequestHmacMessage, requesterStaMac, requesterApMac, hashKey) ==
    LET got == getHmac(encryptionRequestHmacMessage, emptyString)
    IN  got[1] /\ Len(got[2]) = 2 * SHA256_NATURAL_LENGTH

verifyEncryptionRequestHmac(encryptionRequestHmacMessage, requesterStaMac, requesterApMac, hashKey) ==
    LET got == getHmac(encryptionRequestHmacMessage, emptyString)
        hmac == got[2]
        hmacStartIndex == indexOfString(encryptionRequestHmacMessage, jsonHmac, 0)
    IN  IF got[1]
        THEN IF hmacStartIndex < 0 THEN FALSE
             ELSE /\ Len(hmac) = 2 * SHA256_NATURAL_LENGTH
                  /\ verifyMeshHmac(macToString(requesterStaMac) \o macToString(requesterApMac)
                                    \o substring(encryptionRequestHmacMessage, 0, hmacStartIndex),
                                    hmac, hashKey)
        ELSE FALSE

(***************************************************************************)
(* The state machine.  A message comes to hand once, composed by this node *)
(* or received; then one function is called on it.                         *)
(***************************************************************************)
NoCall == <<"none">>

FreshResults ==
    /\ resultString = <<"?">>
    /\ resultKey = <<7>>
    /\ resultMac = <<1, 2, 3, 4, 5, 6>>
    /\ resultNumber = <<0, 77>>
    /\ resultFlag = TRUE
    /\ resultCount = 77

Init ==
    /\ jsonString = emptyString
    /\ origin = <<"none">>
    /\ call = NoCall
    /\ ret = FALSE
    /\ fatal = FALSE
    /\ FreshResults

Load(message, from) ==
    /\ origin = <<"none">>
    /\ call = NoCall
    /\ jsonString' = message
    /\ origin' = from
    /\ UNCHANGED <<call, ret, fatal, results>>

\* the call name(jsonString, ...) returned r[1]
Returned(name, r) ==
    /\ call = NoCall
    /\ call' = <<name>>
    /\ ret' = r[1]
    /\ fatal' = FALSE
    /\ UNCHANGED <<jsonString, origin>>

GetConnectionState ==
    LET r == getConnectionState(jsonString, resultString)
    IN  /\ Returned("getConnectionState", r)
        /\ resultString' = r[2]
        /\ UNCHANGED <<resultKey, resultMac, resultNumber, resultFlag, resultCount>>

GetPassword ==
    LET r == getPassword(jsonString, resultString)
    IN  /\ Returned("getPassword", r)
        /\ resultString' = r[2]
        /\ UNCHANGED <<resultKey, resultMac, resultNumber, resultFlag, resultCount>>

GetNonce ==
    LET r == getNonce(jsonString, resultString)
    IN  /\ Returned("getNonce", r)
        /\ resultString' = r[2]
        /\ UNCHANGED <<resultKey, resultMac, resultNumber, resultFlag, resultCount>>

GetHmac ==
    LET r == getHmac(jsonString, resultString)
    IN  /\ Returned("getHmac", r)
        /\ resultString' = r[2]
        /\ UNCHANGED <<resultKey, resultMac, resultNumber, resultFlag, resultCount>>

GetOwnSessionKey ==
    LET r == getOwnSessionKey(jsonString, resultKey)
    IN  /\ Returned("getOwnSessionKey", r)
        /\ resultKey' = r[2]
        /\ UNCHANGED <<resultString, resultMac, resultNumber, resultFlag, resultCount>>

GetPeerSessionKey ==
    LET r == getPeerSessionKey(jsonString, resultKey)
    IN  /\ Returned("getPeerSessionKey", r)
        /\ resultKey' = r[2]
        /\ UNCHANGED <<resultString, resultMac, resultNumber, resultFlag, resultCount>>

GetPeerStaMac ==
    LET r == getPeerStaMac(jsonString, resultMac)
    IN  /\ Returned("getPeerStaMac", r)
        /\ resultMac' = r[2]
        /\ UNCHANGED <<resultString, resultKey, resultNumber, resultFlag, resultCount>>

GetPeerApMac ==
    LET r == getPeerApMac(jsonString, resultMac)
    IN  /\ Returned("getPeerApMac", r)
        /\ resultMac' = r[2]
        /\ UNCHANGED <<resultString, resultKey, resultNumber, resultFlag, resultCount>>

GetDuration ==
    LET r == getDuration(jsonString, resultNumber)
    IN  /\ Returned("getDuration", r)
        /\ resultNumber' = r[2]
        /\ UNCHANGED <<resultString, resultKey, resultMac, resultFlag, resultCount>>

GetDesync ==
    LET r == getDesync(jsonString, resultFlag)
    IN  /\ Returned("getDesync", r)
        /\ resultFlag' = r[2]
        /\ UNCHANGED <<resultString, resultKey, resultMac, resultNumber, resultCount>>

GetUnsynchronizedMessageID ==
    LET r == getUnsynchronizedMessageID(jsonString, resultNumber)
    IN  /\ Returned("getUnsynchronizedMessageID", r)
        /\ resultNumber' = r[2]
        /\ UNCHANGED <<resultString, resultKey, resultMac, resultFlag, resultCount>>

GetMeshMessageCount ==
    LET r == getMeshMessageCount(jsonString, resultCount)
    IN  /\ call = NoCall
        /\ call' = <<"getMeshMessageCount">>
        /\ ret' = r[1]
        /\ fatal' = r[3]
        /\ resultCount' = r[2]
        /\ UNCHANGED <<jsonString, origin>>
        /\ UNCHANGED <<resultString, resultKey, resultMac, resultNumber, resultFlag>>

Getters ==
    \/ GetConnectionState
    \/ GetPassword
    \/ GetNonce
    \/ GetHmac
    \/ GetOwnSessionKey
    \/ GetPeerSessionKey
    \/ GetPeerStaMac
    \/ GetPeerApMac
    \/ GetDuration
    \/ GetDesync
    \/ GetUnsynchronizedMessageID
    \/ GetMeshMessageCount

(***************************************************************************)
(* Connection info: createEncryptedConnectionInfo and its getters          *)
(***************************************************************************)
\* nonce and password texts: plain ones, ones that hold a delimiter and ones
\* that hold a field identifier
Texts ==
    { <<"1", "F", "2">>, <<"a", "b", "c">>, <<"a", ",", "b">>, <<"}">>,
      jsonNonce, jsonPassword, jsonOwnSessionKey, jsonPeerSessionKey }

InfoHeaders == { encryptedConnectionInfoHeader, <<"I">> \o jsonPassword }

UINT64_MAX == <<1, 8, 4, 4, 6, 7, 4, 4, 0, 7, 3, 7, 0, 9, 5, 5, 1, 6, 1, 5>>

SessionKeys == { <<0>>, <<9, 5, 6>>, UINT64_MAX }

\* origin: <<"info", infoHeader, requestNonce, authenticationPassword,
\*           ownSessionKey, peerSessionKey>>
ComposeConnectionInfo ==
    \E h \in InfoHeaders, n \in Texts, p \in Texts, a \in SessionKeys, b \in SessionKeys :
        Load(createEncryptedConnectionInfo(h, n, p, a, b), <<"info", h, n, p, a, b>>)

NextInfo ==
    \/ ComposeConnectionInfo
    \/ GetNonce
    \/ GetPassword
    \/ GetOwnSessionKey
    \/ GetPeerSessionKey

SpecInfo == Init /\ [][NextInfo]_vars

(***************************************************************************)
(* Properties                                                              *)
(***************************************************************************)
\* s holds pattern as a contiguous part
Contains(s, pattern) ==
    \E i \in 1..(Len(s) - Len(pattern) + 1) : SubSeq(s, i, i + Len(pattern) - 1) = pattern

HasChar(s, ch) == \E i \in 1..Len(s) : s[i] = ch

Called(name) == call[1] = name

FromInfo == origin[1] = "info"

InfoHeader == origin[2]

InfoNonce == origin[3]

InfoPassword == origin[4]

InfoOwnSessionKey == origin[5]

InfoPeerSessionKey == origin[6]

NonceLocatable ==
    /\ ~Contains(InfoHeader, jsonNonce)
    /\ ~HasChar(InfoNonce, ",")

PasswordLocatable ==
    /\ ~Contains(InfoHeader, jsonPassword)
    /\ ~Contains(InfoNonce, jsonPassword)
    /\ ~HasChar(InfoPassword, ",")

TextsWithout(identifier) ==
    /\ ~Contains(InfoHeader, identifier)
    /\ ~Contains(InfoNonce, identifier)
    /\ ~Contains(InfoPassword, identifier)

UINT32_MAX == <<LimbBase - 1, LimbBase - 1>>

Durations == { Zero32, <<0, 5000>>, UINT32_MAX }

\* the base-10 text of each duration, written out
DurationText(d) ==
    CASE d = Zero32 -> <<"0">>
      [] d = <<0, 5000>> -> <<"5", "0", "0", "0">>
      [] d = UINT32_MAX -> <<"4", "2", "9", "4", "9", "6", "7", "2", "9", "5">>

\* the temporary header, the permanent one, near misses of the temporary
\* header and a header that holds the duration identifier
RequestHeaders ==
    { temporaryEncryptionRequestHeader,
      encryptionRequestHeader,
      <<"A", "d", "d", "T", "E", "C">>,
      <<"a", "d", "d", "T", "E", "C", ":">>,
      temporaryEncryptionRequestHeader \o <<":">>,
      <<"H">> \o jsonDuration \o <<"\"", "7">> }

RequestNonces == { <<"1", "F", "2">>, emptyString, jsonDuration \o <<"\"", "9">> }

\* origin: <<"request", requestHeader, duration, requestNonce, the intro>>
ComposeEncryptionRequest ==
    \E h \in RequestHeaders, d \in Durations, n \in RequestNonces :
        LET intro == createEncryptionRequestIntro(h, d)
        IN  Load(intro \o createEncryptionRequestEnding(n), <<"request", h, d, n, intro>>)

NextRequest ==
    \/ ComposeEncryptionRequest
    \/ GetDuration
    \/ GetNonce

SpecRequest == Init /\ [][NextRequest]_vars

FromRequest == origin[1] = "request"

RequestHeader == origin[2]

RequestDuration == origin[3]

RequestNonce == origin[4]

RequestIntro == origin[5]

IntroIsConditional ==
    FromRequest =>
        IF RequestHeader = temporaryEncryptionRequestHeader
        THEN RequestIntro = RequestHeader \o ArgumentsOpen \o jsonDuration
                            \o <<"\"">> \o DurationText(RequestDuration) \o <<"\"", ",">>
        ELSE RequestIntro = RequestHeader \o ArgumentsOpen

OwnMacs == << <<92, 207, 127, 1, 2, 3>>, <<94, 207, 127, 1, 2, 3>> >>

OtherMacs == << <<92, 207, 127, 1, 2, 4>>, <<94, 207, 127, 1, 2, 3>> >>

HashKeys == { <<1>>, <<2, 3>> }

HmacHeaders == { temporaryEncryptionRequestHeader, encryptionRequestHeader }

\* a plain nonce, one that holds a delimiter, one that holds the hmac identifier
HmacNonces == { <<"1", "F", "2">>, <<"a", ",">>, <<"N">> \o jsonHmac }

TamperChars == { "x", ",", "}", "\"", "0" }

\* origin: <<"hmac", requestHeader, requestNonce, hashKey, the message>>
ComposeHmacMessage ==
    \E h \in HmacHeaders, n \in HmacNonces, k \in HashKeys :
        LET message == createEncryptionRequestHmacMessage(h, n, k, <<0, 5000>>,
                                                          OwnMacs[1], OwnMacs[2])
        IN  Load(message, <<"hmac", h, n, k, message>>)

\* origin: <<"tampered", requestHeader, requestNonce, hashKey, the message as
\*           composed, the offset of the character that was replaced>>
Tamper ==
    /\ origin[1] = "hmac"
    /\ call = NoCall
    /\ \E pos \in 0..(Len(jsonString) - 1), ch \in TamperChars :
           /\ ch # jsonString[pos + 1]
           /\ jsonString' = [jsonString EXCEPT ![pos + 1] = ch]
           /\ origin' = <<"tampered", origin[2], origin[3], origin[4], origin[5], pos>>
    /\ UNCHANGED <<call, ret, fatal, results>>

\* call: <<"verifyEncryptionRequestHmac", requesterStaMac, requesterApMac, hashKey>>
VerifyEncryptionRequestHmac ==
    /\ call = NoCall
    /\ origin[1] \in {"hmac", "tampered"}
    /\ \E macs \in {OwnMacs, OtherMacs}, k \in HashKeys :
           /\ call' = <<"verifyEncryptionRequestHmac", macs[1], macs[2], k>>
           /\ ret' = verifyEncryptionRequestHmac(jsonString, macs[1], macs[2], k)
    /\ fatal' = FALSE
    /\ UNCHANGED <<jsonString, origin, results>>

NextHmac ==
    \/ ComposeHmacMessage
    \/ Tamper
    \/ VerifyEncryptionRequestHmac

SpecHmac == Init /\ [][NextHmac]_vars

HmacHeader == origin[2]

HmacNonce == origin[3]

HmacKey == origin[4]

HmacComposed == origin[5]

TamperedAt == origin[6]

\* verifyEncryptionRequestHmac was called with the composer's key and the
\* composing node's addresses
VerifiedAsComposed ==
    /\ Called("verifyEncryptionRequestHmac")
    /\ call[2] = OwnMacs[1]
    /\ call[3] = OwnMacs[2]
    /\ call[4] = HmacKey

TagLength == 2 * SHA256_NATURAL_LENGTH

BodyLength == Len(HmacComposed) - (Len(jsonHmac) + 1 + TagLength + 3)

InBody(pos) == pos < BodyLength

InTag(pos) ==
    /\ pos >= BodyLength + Len(jsonHmac) + 1
    /\ pos < BodyLength + Len(jsonHmac) + 1 + TagLength

ComposedWasAccepted ==
    verifyEncryptionRequestHmac(HmacComposed, OwnMacs[1], OwnMacs[2], HmacKey)

\* C2: when one character of the body or of the tag of an accepted composed
\* message is replaced by another one, verifyEncryptionRequestHmac with the
\* same key and addresses returns false; it returns false whenever the message
\* holds no hmac identifier or the tag it extracts is not
\* 2 * SHA256_NATURAL_LENGTH characters long.
C2_TamperedIsRejected ==
    /\ (origin[1] = "tampered" /\ VerifiedAsComposed /\ ComposedWasAccepted
            /\ (InBody(TamperedAt) \/ InTag(TamperedAt))) => ~ret
    /\ (Called("verifyEncryptionRequestHmac") /\ ~Contains(jsonString, jsonHmac)) => ~ret
    /\ (Called("verifyEncryptionRequestHmac")
            /\ Len(getHmac(jsonString, emptyString)[2]) # TagLength) => ~ret

\* a tag character was replaced by another hexadecimal character, leaving the
\* tag at its length, and the message was rejected
C2_Witness ==
    /\ origin[1] = "tampered"
    /\ VerifiedAsComposed
    /\ ComposedWasAccepted
    /\ InTag(TamperedAt)
    /\ jsonString[TamperedAt + 1] = "0"
    /\ Len(getHmac(jsonString, emptyString)[2]) = TagLength
    /\ ~ret

(***************************************************************************)
(* Received messages that follow the wire grammar: a header, {"arguments":{*)
(* and quoted pairs, each field at most once, in any order                 *)
(***************************************************************************)
MaxFields == 3

\* <<identifier, value>> of the fields a message may carry
WireFields ==
    << <<jsonNonce, <<"1", "F", "2">> >>,
       <<jsonPassword, <<"a", "b", "c">> >>,
       <<jsonOwnSessionKey, <<"9", "5", "6">> >>,
       <<jsonPeerStaMac, <<"A", "1", "B", "2", "C", "3", "D", "4", "E", "5", "F", "6">> >>,
       <<jsonDuration, <<"5", "0", "0", "0">> >>,
       <<jsonDesync, <<"1">> >>,
       <<jsonMeshMessageCount, <<"3">> >>,
       <<jsonConnectionState, <<"x">> >> >>

\* the sequences of n different fields
Orders(n) ==
    {order \in [1..n -> 1..Len(WireFields)] :
        \A i, j \in 1..n : i # j => order[i] # order[j]}

RECURSIVE WirePairs(_)
WirePairs(order) ==
    IF Len(order) = 1
    THEN createJsonEndPair(WireFields[order[1]][1], WireFields[order[1]][2])
    ELSE createJsonPair(WireFields[order[1]][1], WireFields[order[1]][2])
         \o WirePairs(Tail(order))

WireMessage(header, order) == header \o ArgumentsOpen \o WirePairs(order)

\* origin: <<"wire", header, the fields in their order>>
ReceiveWireMessage ==
    \E n \in 1..MaxFields :
        \E order \in Orders(n) :
            Load(WireMessage(encryptedConnectionInfoHeader, order),
                 <<"wire", encryptedConnectionInfoHeader, order>>)

NextWire ==
    \/ ReceiveWireMessage
    \/ Getters

SpecWire == Init /\ [][NextWire]_vars

FromWire == origin[1] = "wire"

WireOrder == origin[3]

RECURSIVE Ascending(_)
\* the members of a set of numbers in ascending order
Ascending(S) ==
    IF S = {} THEN <<>> ELSE <<SetMin(S)>> \o Ascending(S \ {SetMin(S)})

\* the message with the same pairs in the order of WireFields
Reordered ==
    WireMessage(origin[2], Ascending({WireOrder[i] : i \in 1..Len(WireOrder)}))

\* what the call that was made returned and wrote
Observed ==
    CASE call[1] \in {"getConnectionState", "getPassword", "getNonce", "getHmac"}
             -> <<ret, resultString>>
      [] call[1] \in {"getOwnSessionKey", "getPeerSessionKey"} -> <<ret, resultKey>>
      [] call[1] \in {"getPeerStaMac", "getPeerApMac"} -> <<ret, resultMac>>
      [] call[1] \in {"getDuration", "getUnsynchronizedMessageID"} -> <<ret, resultNumber>>
      [] call[1] = "getDesync" -> <<ret, resultFlag>>
      [] call[1] = "getMeshMessageCount" -> <<ret, resultCount, fatal>>

\* what the same call returns and writes on another message
OnMessage(json) ==
    CASE call[1] = "getConnectionState" -> getConnectionState(json, <<"?">>)
      [] call[1] = "getPassword" -> getPassword(json, <<"?">>)
      [] call[1] = "getNonce" -> getNonce(json, <<"?">>)
      [] call[1] = "getHmac" -> getHmac(json, <<"?">>)
      [] call[1] = "getOwnSessionKey" -> getOwnSessionKey(json, <<7>>)
      [] call[1] = "getPeerSessionKey" -> getPeerSessionKey(json, <<7>>)
      [] call[1] = "getPeerStaMac" -> getPeerStaMac(json, <<1, 2, 3, 4, 5, 6>>)
      [] call[1] = "getPeerApMac" -> getPeerApMac(json, <<1, 2, 3, 4, 5, 6>>)
      [] call[1] = "getDuration" -> getDuration(json, <<0, 77>>)
      [] call[1] = "getUnsynchronizedMessageID" -> getUnsynchronizedMessageID(json, <<0, 77>>)
      [] call[1] = "getDesync" -> getDesync(json, TRUE)
      [] call[1] = "getMeshMessageCount" -> getMeshMessageCount(json, 77)

MaxTail == 2

unknownIdentifier == <<"\"", "i", "d", "\"", ":">>

RawLeads == { emptyString, <<"}">> }

Address12 == <<"A", "1", "B", "2", "C", "3", "D", "4", "E", "5", "F", "6">>

Address10 == <<"A", "1", "B", "2", "C", "3", "D", "4", "E", "5">>

Beyond32Bits == <<"4", "2", "9", "4", "9", "6", "7", "3", "0", "1">>

\* <<identifier, value>>: every field with no value and with values of its
\* kind; numbers in base 10 with and without a leading zero, in base 16, at
\* and beyond the 16-bit limit and beyond the 32-bit limit; addresses of 12
\* and of 10 characters
RawFields ==
    ({ jsonPassword, jsonNonce, jsonHmac, jsonConnectionState, unknownIdentifier }
        \X { emptyString, <<"5", "0", "0", "0">> })
    \cup ({ jsonOwnSessionKey, jsonPeerSessionKey }
        \X { emptyString, <<"5", "0", "0", "0">>, <<"0", "1", "0">> })
    \cup ({ jsonPeerStaMac, jsonPeerApMac }
        \X { emptyString, Address12, Address10 })
    \cup ({ jsonDuration, jsonDesync, jsonUnsynchronizedMessageID }
        \X { emptyString, <<"0">>, <<"5", "0", "0", "0">>, <<"0", "1", "0">>,
             <<"0", "x", "1", "F">>, Beyond32Bits })
    \cup ({ jsonMeshMessageCount }
        \X { emptyString, <<"0", "1", "0">>, <<"6", "5", "5", "3", "5">>,
             <<"6", "5", "5", "3", "6">>, Beyond32Bits })

TailChars == { "\"", ",", "}" }

RawTails == UNION { [1..n -> TailChars] : n \in 0..MaxTail }

\* origin: <<"raw", lead, identifier, value, tail>>
ReceiveRawMessage ==
    \E lead \in RawLeads, field \in RawFields, tail \in RawTails :
        Load(lead \o field[1] \o <<"\"">> \o field[2] \o tail,
             <<"raw", lead, field[1], field[2], tail>>)

NextRaw ==
    \/ ReceiveRawMessage
    \/ Getters

SpecRaw == Init /\ [][NextRaw]_vars

FromRaw == origin[1] = "raw"

RawIdentifier == origin[3]

RawValue == origin[4]

RawTail == origin[5]

\* the offset of the first occurrence of pattern in s, which holds it
FirstAt(s, pattern) ==
    CHOOSE i \in 0..(Len(s) - Len(pattern)) :
        /\ SubSeq(s, i + 1, i + Len(pattern)) = pattern
        /\ \A j \in 0..(i - 1) : SubSeq(s, j + 1, j + Len(pattern)) # pattern

\* the offsets from start on at which s has the character
OffsetsOf(s, ch, start) == {i \in start..(Len(s) - 1) : s[i + 1] = ch}

\* the offset of the first character of the value of a field that s holds
ValueStart(s, identifier) == FirstAt(s, identifier) + Len(identifier) + 1

DelimiterFollows(s, start) == OffsetsOf(s, ",", start) \cup OffsetsOf(s, "}", start) # {}

\* the offset one before the first comma from start on or, without a comma,
\* one before the first closing brace
ValueEnd(s, start) ==
    IF OffsetsOf(s, ",", start) # {} THEN SetMin(OffsetsOf(s, ",", start)) - 1
    ELSE SetMin(OffsetsOf(s, "}", start)) - 1

TextGetters == {"getPassword", "getNonce", "getHmac"}

KeyGetters == {"getOwnSessionKey", "getPeerSessionKey"}

MacGetters == {"getPeerStaMac", "getPeerApMac"}

NumberGetters == {"getDuration", "getDesync", "getUnsynchronizedMessageID"}

IdentifierOf(name) ==
    CASE name = "getPassword" -> jsonPassword
      [] name = "getNonce" -> jsonNonce
      [] name = "getHmac" -> jsonHmac
      [] name = "getOwnSessionKey" -> jsonOwnSessionKey
      [] name = "getPeerSessionKey" -> jsonPeerSessionKey
      [] name = "getPeerStaMac" -> jsonPeerStaMac
      [] name = "getPeerApMac" -> jsonPeerApMac
      [] name = "getDuration" -> jsonDuration
      [] name = "getDesync" -> jsonDesync
      [] name = "getUnsynchronizedMessageID" -> jsonUnsynchronizedMessageID
      [] name = "getMeshMessageCount" -> jsonMeshMessageCount
      [] name = "getConnectionState" -> jsonConnectionState

\* the conditions under which C6 says the getter fails
StatedFailure(name) ==
    \/ ~Contains(jsonString, IdentifierOf(name))
    \/ /\ name \in TextGetters \cup KeyGetters \cup MacGetters
       /\ ~DelimiterFollows(jsonString, ValueStart(jsonString, IdentifierOf(name)))
    \/ /\ name \in MacGetters
       /\ ValueEnd(jsonString, ValueStart(jsonString, IdentifierOf(name)))
              - ValueStart(jsonString, IdentifierOf(name)) # 12

\* a text getter that succeeded on a value that does not end before it starts
\* wrote the characters from the value start up to the value end
WroteTheValue(name) ==
    LET start == ValueStart(jsonString, IdentifierOf(name))
        end == ValueEnd(jsonString, start)
    IN  (name \in TextGetters /\ end >= start)
            => resultString = SubSeq(jsonString, start + 1, end)

Untouched ==
    /\ resultString = <<"?">>
    /\ resultKey = <<7>>
    /\ resultMac = <<1, 2, 3, 4, 5, 6>>
    /\ resultNumber = <<0, 77>>
    /\ resultFlag = TRUE
    /\ resultCount = 77

GettersOfC6 ==
    TextGetters \cup KeyGetters \cup MacGetters \cup NumberGetters \cup {"getConnectionState"}

FirstBrace == SetMin(OffsetsOf(jsonString, "}", 0))

LastBrace == CHOOSE i \in OffsetsOf(jsonString, "}", 0) : OffsetsOf(jsonString, "}", i + 1) = {}

ConnectionStateAt == FirstAt(jsonString, jsonConnectionState)

\* C6 as stated: a getter returns false and leaves its result untouched when
\* its identifier does not occur; the text, key and address getters also when
\* neither a comma nor a closing brace follows the value start; the address
\* getters also when the value span is not 12; in every other case the getter
\* returns true and writes the value.  For getConnectionState, which the
\* statement may or may not count as a text getter, only what both readings
\* say: it fails when its identifier does not occur and succeeds when the
\* identifier occurs and a comma or a closing brace follows the value start.
C6_FailureCasesAsStated ==
    /\ (call[1] \in GettersOfC6 \ {"getConnectionState"}) =>
           IF StatedFailure(call[1]) THEN ~ret /\ Untouched
           ELSE ret /\ WroteTheValue(call[1])
    /\ Called("getConnectionState") =>
           IF ~Contains(jsonString, jsonConnectionState) THEN ~ret /\ Untouched
           ELSE DelimiterFollows(jsonString, ValueStart(jsonString, jsonConnectionState))
                    => ret

\* C6 amended: as stated for the text, key, address and number getters;
\* getConnectionState returns false and leaves its result untouched when its
\* identifier does not occur or the message holds no closing brace at all, a
\* comma being of no help to it, and returns true in every other case.
C6_FailureCases ==
    /\ (call[1] \in GettersOfC6 \ {"getConnectionState"}) =>
           IF StatedFailure(call[1]) THEN ~ret /\ Untouched
           ELSE ret /\ WroteTheValue(call[1])
    /\ Called("getConnectionState") =>
           IF ~Contains(jsonString, jsonConnectionState) \/ ~HasChar(jsonString, "}")
           THEN ~ret /\ Untouched
           ELSE ret

\* an address of 10 characters was refused although its field is there and a
\* delimiter follows
C6_Witness ==
    /\ FromRaw
    /\ Called("getPeerStaMac")
    /\ RawIdentifier = jsonPeerStaMac
    /\ Len(RawValue) = 10
    /\ RawTail = <<"\"", ",">>
    /\ ~ret
    /\ Untouched

RECURSIVE DecimalNumber(_)
\* the number a sequence of decimal digit characters denotes in base 10
DecimalNumber(digits) ==
    IF digits = <<>> THEN 0
    ELSE 10 * DecimalNumber(SubSeq(digits, 1, Len(digits) - 1)) + DigitValue(digits[Len(digits)])

RECURSIVE LeadingRun(_)
\* the longest run of decimal digit characters s starts with
LeadingRun(s) ==
    IF s = <<>> \/ ~IsDigit(s[1]) THEN <<>> ELSE <<s[1]>> \o LeadingRun(Tail(s))

\* the value is a number written in base 10 without a leading zero
PlainDecimal(value) ==
    /\ value # <<>>
    /\ LeadingRun(value) = value
    /\ (value[1] = "0" => Len(value) = 1)

Over16Bits(value) ==
    \/ Len(value) > 5
    \/ Len(value) = 5 /\ DecimalNumber(value) > 65535

\* C7: when the value of the meshMessageCount field is a number in base 10,
\* getMeshMessageCount returns true with exactly that number when it is at most
\* 65535 and ends in the failed assertion, without returning and without
\* writing a cut number, when it is greater, beyond 32 bits too; whenever it
\* returns true the result is at most 65535.
C7_CountFitsOrFatal ==
    /\ (FromRaw /\ Called("getMeshMessageCount") /\ RawIdentifier = jsonMeshMessageCount
            /\ PlainDecimal(RawValue))
           => IF Over16Bits(RawValue) THEN fatal /\ ~ret /\ resultCount = 77
              ELSE ret /\ ~fatal /\ resultCount = DecimalNumber(RawValue)
    /\ (Called("getMeshMessageCount") /\ ret) => (~fatal /\ resultCount <= 65535)

\* a number beyond 32 bits, which cut to 32 bits would be 5, ended in the
\* failed assertion
C7_Witness ==
    /\ FromRaw
    /\ Called("getMeshMessageCount")
    /\ RawIdentifier = jsonMeshMessageCount
    /\ RawValue = Beyond32Bits
    /\ fatal
    /\ resultCount = 77

\* the number of at most 9 digits as a 32-bit number
Number32(digits) ==
    <<DecimalNumber(digits) \div LimbBase, DecimalNumber(digits) % LimbBase>>

DigitsLead(name) ==
    /\ FromRaw
    /\ Called(name)
    /\ RawIdentifier = IdentifierOf(name)
    /\ LeadingRun(RawValue) # <<>>
    /\ Len(LeadingRun(RawValue)) <= 9

\* C8 as stated: when the value of the duration (unsynchronizedMessageID,
\* desync) field starts with decimal digits, the getter returns true and yields
\* the base-10 number of the longest leading run of digits (desync: whether
\* that number is not zero), whatever follows.
C8_LeadingDigitsBase10 ==
    /\ DigitsLead("getDuration")
           => (ret /\ resultNumber = Number32(LeadingRun(RawValue)))
    /\ DigitsLead("getUnsynchronizedMessageID")
           => (ret /\ resultNumber = Number32(LeadingRun(RawValue)))
    /\ DigitsLead("getDesync")
           => (ret /\ resultFlag = (DecimalNumber(LeadingRun(RawValue)) # 0))

\* C10 as stated: when the connectionState identifier occurs and a closing
\* brace exists, getConnectionState returns true and its result is the part of
\* the message from the identifier up to and including the outer closing
\* brace, the last one of the message (stated for the messages all of whose
\* closing braces follow the identifier); otherwise it returns false and
\* leaves the result unchanged.
C10_UpToOuterBrace ==
    Called("getConnectionState") =>
        IF Contains(jsonString, jsonConnectionState) /\ HasChar(jsonString, "}")
        THEN /\ ret
             /\ FirstBrace >= ConnectionStateAt
                    => resultString = SubSeq(jsonString, ConnectionStateAt + 1, LastBrace + 1)
        ELSE ~ret /\ Untouched

\* C10 amended: the result ends at, and includes, the first closing brace of
\* the message, when that brace follows the identifier.
C10_UpToFirstBrace ==
    Called("getConnectionState") =>
        IF Contains(jsonString, jsonConnectionState) /\ HasChar(jsonString, "}")
        THEN /\ ret
             /\ FirstBrace >= ConnectionStateAt
                    => resultString = SubSeq(jsonString, ConnectionStateAt + 1, FirstBrace + 1)
        ELSE ~ret /\ Untouched

\* the result ended at the first of two closing braces
C10_Witness ==
    /\ FromRaw
    /\ Called("getConnectionState")
    /\ RawIdentifier = jsonConnectionState
    /\ RawTail = <<"}", "}">>
    /\ origin[2] = emptyString
    /\ ret
    /\ Len(resultString) = Len(jsonString) - 1

(***************************************************************************)
(* All of it                                                               *)
(***************************************************************************)
Next ==
    \/ ComposeConnectionInfo
    \/ ComposeEncryptionRequest
    \/ ComposeHmacMessage
    \/ Tamper
    \/ VerifyEncryptionRequestHmac
    \/ ReceiveWireMessage
    \/ ReceiveRawMessage
    \/ Getters

Spec == Init /\ [][Next]_vars

=============================================================================
